---- MODULE Spec2Model ----
(***************************************************************************)
(* A model of the two release utilities of vencord-installer-gui:          *)
(*   scripts/version_bump.py   the interactive version synchroniser        *)
(*   updater-test/server.py    the no-cache static server of the updater   *)
(*                             test                                        *)
(* Text is a sequence of characters (one-character strings), so that the   *)
(* line splitting, the regular expression and the JSON escaping of the     *)
(* script are computed character by character.                             *)
(***************************************************************************)
EXTENDS Integers, Sequences, FiniteSets, TLC

VARIABLES
    pc,        \* position of the run of main(): the next step, "done" or "error"
    run,       \* number of the invocation of the script (1 = first)
    failedAt,  \* the step that terminated the run with an error, or "none"
    written,   \* the files write_text has been called on in this run, in order
    answers,   \* the operator's raw answers to the prompts of this run
    inputs,    \* the raw answers of the first run (a later run repeats them)
    version,   \* main's local variable version
    body,      \* main's local variable release_body
    files,     \* content of the five target files
    orig,      \* content of the five target files when this run started
    req,       \* the test server: the request being handled
    resp,      \* the test server: the response under construction / sent
    spc        \* the test server: position in handle_one_request

vars == <<pc, run, failedAt, written, answers, inputs, version, body, files, orig,
          req, resp, spc>>

bumpVars == <<pc, run, failedAt, written, answers, inputs, version, body, files, orig>>
srvVars == <<req, resp, spc>>

---------------------------------------------------------------------------
(* Characters *)

SP == " "
TAB == "\t"
LF == "\n"
FF == "\f"
QUOTE == "\""
BSLASH == "\\"
\* U+0085 NEXT LINE: a non-ASCII character, and a line boundary of str.splitlines
NEL == "U+0085"

\* str.strip / str.lstrip / the regular expression's \s: Unicode white space
WhiteSpace == {SP, TAB, LF, FF, NEL}

\* the line boundaries of str.splitlines (the file is read in text mode, so
\* "\r" and "\r\n" have already become "\n")
LineBoundary == {LF, FF, NEL}

---------------------------------------------------------------------------
(* Text helpers: Python's str methods *)

Tail1(s, i) == SubSeq(s, i, Len(s))

\* least index >= i of s whose character is in set B, or Len(s)+1
RECURSIVE FindIn(_, _, _)
FindIn(s, i, B) ==
    IF i > Len(s) THEN Len(s) + 1
    ELSE IF s[i] \in B THEN i
    ELSE FindIn(s, i + 1, B)

\* least index >= i of s whose character is not in set B, or Len(s)+1
RECURSIVE SkipIn(_, _, _)
SkipIn(s, i, B) ==
    IF i > Len(s) THEN Len(s) + 1
    ELSE IF s[i] \notin B THEN i
    ELSE SkipIn(s, i + 1, B)

\* greatest index <= i of s whose character is not in set B, or 0
RECURSIVE SkipBack(_, _, _)
SkipBack(s, i, B) ==
    IF i < 1 THEN 0
    ELSE IF s[i] \notin B THEN i
    ELSE SkipBack(s, i - 1, B)

\* str.lstrip()
LStrip(s) == Tail1(s, SkipIn(s, 1, WhiteSpace))

\* str.strip()
Strip(s) == SubSeq(s, SkipIn(s, 1, WhiteSpace), SkipBack(s, Len(s), WhiteSpace))

\* str.startswith(p)
StartsWith(s, p) == Len(s) >= Len(p) /\ SubSeq(s, 1, Len(p)) = p

\* the pieces of text between the characters of B, a final terminator closing
\* the last piece rather than opening an empty one
RECURSIVE SplitOn(_, _)
SplitOn(text, B) ==
    IF text = <<>> THEN <<>>
    ELSE LET i == FindIn(text, 1, B)
         IN  IF i > Len(text) THEN <<text>>
             ELSE <<SubSeq(text, 1, i - 1)>> \o SplitOn(Tail1(text, i + 1), B)

\* str.splitlines(): the lines without their terminators
SplitLines(text) == SplitOn(text, LineBoundary)

\* iterating a text file: the lines with their "\n" kept
RECURSIVE FileLines(_)
FileLines(text) ==
    IF text = <<>> THEN <<>>
    ELSE LET i == FindIn(text, 1, {LF})
         IN  IF i > Len(text) THEN <<text>>
             ELSE <<SubSeq(text, 1, i)>> \o FileLines(Tail1(text, i + 1))

\* "\n".join(lines)
RECURSIVE JoinLF(_)
JoinLF(lines) ==
    IF lines = <<>> THEN <<>>
    ELSE IF Len(lines) = 1 THEN lines[1]
    ELSE lines[1] \o <<LF>> \o JoinLF(Tail(lines))

\* "".join(lines)
RECURSIVE Concat(_)
Concat(lines) ==
    IF lines = <<>> THEN <<>> ELSE lines[1] \o Concat(Tail(lines))

---------------------------------------------------------------------------
(* update_cargo_version *)

KwVersion == <<"v", "e", "r", "s", "i", "o", "n">>

\* version_pattern.match(line) for ^version\s*=\s*"[^"]*"\s*$
VersionPatternMatch(line) ==
    /\ StartsWith(line, KwVersion)
    /\ LET n == Len(line)
           i == SkipIn(line, Len(KwVersion) + 1, WhiteSpace)
       IN  /\ i <= n
           /\ line[i] = "="
           /\ LET j == SkipIn(line, i + 1, WhiteSpace)
              IN  /\ j <= n
                  /\ line[j] = QUOTE
                  /\ LET k == FindIn(line, j + 1, {QUOTE})
                     IN  /\ k <= n
                         /\ SkipIn(line, k + 1, WhiteSpace) = n + 1

\* f'version = "{version}"'
VersionLine(v) == KwVersion \o <<SP, "=", SP, QUOTE>> \o v \o <<QUOTE>>

\* a plausible slip: only the first matching line is rewritten
CargoNewLinesFirstOnly(original, v) ==
    [i \in 1..Len(original) |->
        IF /\ VersionPatternMatch(original[i])
           /\ \A j \in 1..(i - 1) : ~VersionPatternMatch(original[j])
        THEN VersionLine(v) ELSE original[i]]

\* the loop of update_cargo_version: new_lines
CargoNewLines(original, v) ==
    [i \in 1..Len(original) |->
        IF VersionPatternMatch(original[i]) THEN VersionLine(v) ELSE original[i]]

\* the loop of update_cargo_version: replaced
CargoReplaced(original) ==
    \E i \in 1..Len(original) : VersionPatternMatch(original[i])

\* The result of one update step on its file: ok = FALSE is the exception that
\* ends the run, wrote says whether path.write_text was reached, text is the
\* file's content when the step returns or raises.
Raised(text) == [ok |-> FALSE, wrote |-> FALSE, text |-> text]
Wrote(text) == [ok |-> TRUE, wrote |-> TRUE, text |-> text]

\* a plausible slip: the file is written back before replaced is tested
update_cargo_version_write_first(text, v) ==
    LET original == SplitLines(text)
        out == JoinLF(CargoNewLines(original, v)) \o <<LF>>
    IN  IF ~CargoReplaced(original)
        THEN [ok |-> FALSE, wrote |-> TRUE, text |-> out]
        ELSE Wrote(out)

\* a plausible slip: the lines keep their line ends (a keepends split), and
\* the join adds a second one
update_cargo_version_keepends(text, v) ==
    LET original == FileLines(text)
    IN  IF ~CargoReplaced(original)
        THEN Raised(text)
        ELSE Wrote(JoinLF(CargoNewLines(original, v)) \o <<LF>>)

\* update_cargo_version as a function of the file's text
update_cargo_version(text, v) ==
    LET original == SplitLines(text)
    IN  IF ~CargoReplaced(original)
        THEN Raised(text)
        ELSE Wrote(JoinLF(CargoNewLines(original, v)) \o <<LF>>)

---------------------------------------------------------------------------
(* escape_for_yaml and update_release_body *)

Hex4(c) == IF c = NEL THEN <<"0", "0", "8", "5">> ELSE <<"0", "0", "0", "0">>

\* json.dumps on a str (ensure_ascii): the escape of one character
EscapeChar(c) ==
    IF c = QUOTE THEN <<BSLASH, QUOTE>>
    ELSE IF c = BSLASH THEN <<BSLASH, BSLASH>>
    ELSE IF c = LF THEN <<BSLASH, "n">>
    ELSE IF c = TAB THEN <<BSLASH, "t">>
    ELSE IF c = FF THEN <<BSLASH, "f">>
    ELSE IF c = NEL THEN <<BSLASH, "u">> \o Hex4(c)
    ELSE <<c>>

RECURSIVE EscapeChars(_)
EscapeChars(s) ==
    IF s = <<>> THEN <<>> ELSE EscapeChar(s[1]) \o EscapeChars(Tail(s))

\* a plausible slip: the text is quoted but not escaped
escape_for_yaml_raw(value) == <<QUOTE>> \o value \o <<QUOTE>>

\* escape_for_yaml: json.dumps(value)
escape_for_yaml(value) == <<QUOTE>> \o EscapeChars(value) \o <<QUOTE>>

ReleaseKey == <<"r", "e", "l", "e", "a", "s", "e", "B", "o", "d", "y", ":">>

\* line.lstrip().startswith("releaseBody:")
IsReleaseBodyLine(line) == StartsWith(LStrip(line), ReleaseKey)

RECURSIVE Spaces(_)
Spaces(n) == IF n <= 0 THEN <<>> ELSE <<SP>> \o Spaces(n - 1)

\* " " * (len(line) - len(line.lstrip()))
Indent(line) == Spaces(Len(line) - Len(LStrip(line)))

\* f"{indent}releaseBody: {escaped_body}\n"
ReleaseNewLine(line, escaped_body) ==
    Indent(line) \o ReleaseKey \o <<SP>> \o escaped_body \o <<LF>>

\* the loop of update_release_body: new_lines
ReleaseNewLines(lines, escaped_body) ==
    [i \in 1..Len(lines) |->
        IF IsReleaseBodyLine(lines[i])
        THEN ReleaseNewLine(lines[i], escaped_body)
        ELSE lines[i]]

\* a plausible slip: replaced is never tested, a file without the key is
\* written back as it is
update_release_body_silent(text, b) ==
    Wrote(Concat(ReleaseNewLines(FileLines(text), escape_for_yaml(b))))

\* a plausible slip: the file is written back before replaced is tested
update_release_body_write_first(text, b) ==
    LET lines == FileLines(text)
        out == Concat(ReleaseNewLines(lines, escape_for_yaml(b)))
    IN  IF \E i \in 1..Len(lines) : IsReleaseBodyLine(lines[i])
        THEN Wrote(out)
        ELSE [ok |-> FALSE, wrote |-> TRUE, text |-> out]

\* update_release_body as a function of the file's text
update_release_body(text, b) ==
    LET escaped_body == escape_for_yaml(b)
        lines == FileLines(text)
        replaced == \E i \in 1..Len(lines) : IsReleaseBodyLine(lines[i])
    IN  IF ~replaced
        THEN Raised(text)
        ELSE Wrote(Concat(ReleaseNewLines(lines, escaped_body)))

---------------------------------------------------------------------------
(* JSON documents.  A JSON text is modelled by the value json.loads gives   *)
(* for it (valid = FALSE: json.loads raises) and by whether its layout is   *)
(* the one json.dumps(data, indent=2) + "\n" writes.                        *)

JNull == [t |-> "null"]
JNum == [t |-> "num"]
JList == [t |-> "list"]
JStr(s) == [t |-> "str", s |-> s]
JDict(d) == [t |-> "dict", d |-> d]

InvalidJson == [valid |-> FALSE, data |-> JNull, fmt |-> "other"]
JsonText(data, fmt) == [valid |-> TRUE, data |-> data, fmt |-> fmt]

\* json.dumps(data, indent=2) + "\n"
Dumps(data) == JsonText(data, "indent2")

IsDict(x) == x.t = "dict"
IsStr(x) == x.t = "str"

\* dict.get(key)
Get(x, key) == IF key \in DOMAIN x.d THEN x.d[key] ELSE JNull

\* data[key] = value
SetItem(x, key, value) == JDict((key :> value) @@ x.d)

\* get_current_version: ok = FALSE is the error (JSONDecodeError, AttributeError
\* on a document that is no object, or the SystemExit of line 18)
get_current_version(text) ==
    IF ~text.valid \/ ~IsDict(text.data)
    THEN [ok |-> FALSE, value |-> <<>>]
    ELSE LET v == Get(text.data, "version")
         IN  IF ~IsStr(v) \/ Strip(v.s) = <<>>
             THEN [ok |-> FALSE, value |-> <<>>]
             ELSE [ok |-> TRUE, value |-> v.s]

\* a plausible slip: the answer is returned unchecked
prompt_unchecked(raw) == [ok |-> TRUE, value |-> Strip(raw)]

\* prompt: raw is what input() returns
prompt(raw) ==
    LET value == Strip(raw)
    IN  IF value = <<>> THEN [ok |-> FALSE, value |-> value]
        ELSE [ok |-> TRUE, value |-> value]

\* lines 31-35 of update_json_version: the root package's version
SetRootPackage(data, v) ==
    LET packages == Get(data, "packages")
    IN  IF IsDict(packages) /\ "" \in DOMAIN packages.d
        THEN LET root_package == packages.d[""]
             IN  IF IsDict(root_package)
                 THEN SetItem(data, "packages",
                              SetItem(packages, "", SetItem(root_package, "version", JStr(v))))
                 ELSE data
        ELSE data

\* a plausible slip: the root package entry is left alone
update_json_version_top_only(text, v) ==
    IF ~text.valid \/ ~IsDict(text.data)
    THEN Raised(text)
    ELSE Wrote(Dumps(SetItem(text.data, "version", JStr(v))))

\* update_json_version as a function of the file's text; json.loads raising,
\* or the item assignment raising TypeError on a document that is no object,
\* ends the step before the write
update_json_version(text, v) ==
    IF ~text.valid \/ ~IsDict(text.data)
    THEN Raised(text)
    ELSE Wrote(Dumps(SetRootPackage(SetItem(text.data, "version", JStr(v)), v)))

\* update_tauri_conf as a function of the file's text
update_tauri_conf(text, v) ==
    IF ~text.valid \/ ~IsDict(text.data)
    THEN Raised(text)
    ELSE Wrote(Dumps(SetItem(text.data, "version", JStr(v))))

---------------------------------------------------------------------------
(* main: the run of the script *)

\* the order of the update calls of main, lines 94-98
STEPS == <<"package.json", "package-lock.json", "tauri.conf.json", "Cargo.toml",
           "release.yml">>

\* the number of invocations of the script a behaviour follows
MaxRuns == 2

NoFiles == [pkg |-> InvalidJson, lock |-> InvalidJson, tauri |-> InvalidJson,
            cargo |-> <<>>, workflow |-> <<>>]

\* the content of the file a step works on
FileOf(f, step) ==
    CASE step = "package.json" -> f.pkg
      [] step = "package-lock.json" -> f.lock
      [] step = "tauri.conf.json" -> f.tauri
      [] step = "Cargo.toml" -> f.cargo
      [] step = "release.yml" -> f.workflow

WithFile(f, step, text) ==
    CASE step = "package.json" -> [f EXCEPT !.pkg = text]
      [] step = "package-lock.json" -> [f EXCEPT !.lock = text]
      [] step = "tauri.conf.json" -> [f EXCEPT !.tauri = text]
      [] step = "Cargo.toml" -> [f EXCEPT !.cargo = text]
      [] step = "release.yml" -> [f EXCEPT !.workflow = text]

\* an exception leaving main: the process ends with a non-zero status
Fail(at) ==
    /\ pc' = "error"
    /\ failedAt' = at

\* one update call of main: r is what the called function did to its file
UpdateStep(step, r, next) ==
    /\ pc = step
    /\ files' = WithFile(files, step, r.text)
    /\ written' = IF r.wrote THEN Append(written, step) ELSE written
    /\ IF r.ok THEN pc' = next /\ failedAt' = failedAt ELSE Fail(step)
    /\ UNCHANGED <<run, answers, inputs, version, body, orig, srvVars>>

\* line 90
GetCurrentVersion ==
    /\ pc = "get_current_version"
    /\ IF get_current_version(files.pkg).ok
       THEN pc' = "prompt_version" /\ failedAt' = failedAt
       ELSE Fail("get_current_version")
    /\ UNCHANGED <<run, written, answers, inputs, version, body, files, orig, srvVars>>

\* what the operator may type at the k-th prompt: anything in the first run,
\* the first run's answer in a later one
Typed(k, all) == IF run = 1 THEN all ELSE {inputs[k]}

RawVersions ==
    { <<>>, <<SP>>, <<"1", ".", "2">>, <<SP, "1", ".", "2", SP>>,
      <<"1", QUOTE, "2">>, <<"1", FF, "2">> }

RawBodies ==
    { <<>>, <<SP, TAB>>, <<"o", "k">>, <<"a", QUOTE, BSLASH, SP>> }

\* line 91
PromptVersion ==
    /\ pc = "prompt_version"
    /\ \E raw \in Typed(1, RawVersions) :
          /\ answers' = Append(answers, raw)
          /\ IF prompt(raw).ok
             THEN /\ version' = prompt(raw).value
                  /\ pc' = "prompt_body"
                  /\ failedAt' = failedAt
             ELSE /\ Fail("prompt_version")
                  /\ version' = version
    /\ UNCHANGED <<run, written, inputs, body, files, orig, srvVars>>

\* line 92
PromptBody ==
    /\ pc = "prompt_body"
    /\ \E raw \in Typed(2, RawBodies) :
          /\ answers' = Append(answers, raw)
          /\ IF prompt(raw).ok
             THEN /\ body' = prompt(raw).value
                  /\ pc' = "package.json"
                  /\ failedAt' = failedAt
             ELSE /\ Fail("prompt_body")
                  /\ body' = body
    /\ UNCHANGED <<run, written, inputs, version, files, orig, srvVars>>

\* line 94
UpdatePackageJson ==
    UpdateStep("package.json", update_json_version(files.pkg, version), "package-lock.json")

\* line 95
UpdatePackageLock ==
    UpdateStep("package-lock.json", update_json_version(files.lock, version),
               "tauri.conf.json")

\* line 96
UpdateTauriConf ==
    UpdateStep("tauri.conf.json", update_tauri_conf(files.tauri, version), "Cargo.toml")

\* line 97
UpdateCargoVersion ==
    UpdateStep("Cargo.toml", update_cargo_version(files.cargo, version), "release.yml")

\* line 98
UpdateReleaseBody ==
    UpdateStep("release.yml", update_release_body(files.workflow, body), "done")

\* the operator invokes the script again and gives the same answers
Rerun ==
    /\ pc = "done"
    /\ run < MaxRuns
    /\ run' = run + 1
    /\ pc' = "get_current_version"
    /\ inputs' = answers
    /\ answers' = <<>>
    /\ written' = <<>>
    /\ orig' = files
    /\ version' = <<>>
    /\ body' = <<>>
    /\ UNCHANGED <<failedAt, files, srvVars>>

(* The files a run may find *)

V10 == <<"1", ".", "0">>
NameX == "name" :> JStr(<<"x">>)

PackageJsonTexts ==
    { InvalidJson,
      JsonText(JList, "other"),
      JsonText(JDict(NameX), "other"),
      JsonText(JDict(NameX @@ ("version" :> JNum)), "other"),
      JsonText(JDict(NameX @@ ("version" :> JStr(<<SP>>))), "other"),
      JsonText(JDict(NameX @@ ("version" :> JStr(V10))), "other"),
      JsonText(JDict(("version" :> JStr(V10)) @@
                     ("packages" :> JDict("" :> JDict("version" :> JStr(V10))))),
               "indent2") }

PackageLockTexts ==
    { InvalidJson,
      JsonText(JList, "other"),
      JsonText(JDict(NameX @@ ("packages" :> JDict("x" :> JDict(NameX)))), "other"),
      JsonText(JDict(("version" :> JStr(V10)) @@ ("packages" :> JList)), "indent2"),
      JsonText(JDict(("version" :> JStr(V10)) @@ ("packages" :> JDict("" :> JNum))),
               "indent2"),
      JsonText(JDict(("version" :> JStr(V10)) @@
                     ("packages" :> JDict("" :> JDict(NameX)))), "indent2"),
      JsonText(JDict(("version" :> JStr(V10)) @@
                     ("packages" :> JDict("" :> JDict("version" :> JStr(V10))))),
               "indent2") }

TauriConfTexts ==
    { InvalidJson,
      JsonText(JList, "other"),
      JsonText(JDict(NameX), "other"),
      JsonText(JDict(NameX @@ ("version" :> JStr(V10))), "indent2") }

PackageHeader == <<"[", "p", "]", LF>>

CargoTexts ==
    { PackageHeader \o <<"n", SP, "=", SP, QUOTE, "x", QUOTE, LF>>,
      PackageHeader \o VersionLine(<<"1">>) \o <<LF>>,
      KwVersion \o <<"=", QUOTE, "1", QUOTE, LF, "[", "d", "]", LF>> \o VersionLine(<<"2">>),
      <<SP>> \o VersionLine(<<"1">>) \o <<LF>> }

WorkflowTexts ==
    { <<"o", "n", ":", LF>>,
      <<"a", ":", LF, SP, SP>> \o ReleaseKey \o <<SP, "o", LF>>,
      <<TAB>> \o ReleaseKey \o <<SP, "o">> }

NoRequest == [line |-> "none"]

IdleServer ==
    /\ req = NoRequest
    /\ resp = <<>>
    /\ spc = "off"

FreshRun ==
    /\ run = 1
    /\ failedAt = "none"
    /\ written = <<>>
    /\ answers = <<>>
    /\ inputs = <<>>
    /\ orig = files

Init ==
    /\ pc = "get_current_version"
    /\ version = <<>>
    /\ body = <<>>
    /\ files \in [pkg : PackageJsonTexts, lock : PackageLockTexts, tauri : TauriConfTexts,
                  cargo : CargoTexts, workflow : WorkflowTexts]
    /\ FreshRun
    /\ IdleServer

Next ==
    \/ GetCurrentVersion
    \/ PromptVersion
    \/ PromptBody
    \/ UpdatePackageJson
    \/ UpdatePackageLock
    \/ UpdateTauriConf
    \/ UpdateCargoVersion
    \/ UpdateReleaseBody
    \/ Rerun

Spec == Init /\ [][Next]_vars

---------------------------------------------------------------------------
(* update_cargo_version and update_release_body on their own, over a wider  *)
(* range of files                                                           *)

\* all sequences over S of length at most n
SeqsUpTo(S, n) == UNION { [1..k -> S] : k \in 0..n }

\* all texts of at most n of the given lines, the last one terminated or not
TextsOf(lines, n) ==
    { JoinLF(ls) \o t : ls \in SeqsUpTo(lines, n), t \in {<<>>, <<LF>>} }

MaxCargoLines == 3

CargoLines ==
    { <<>>,
      PackageHeader,
      VersionLine(<<"1">>),
      KwVersion \o <<"=", QUOTE, QUOTE, TAB>>,
      <<SP>> \o VersionLine(<<"1">>),
      VersionLine(<<"1">>) \o <<SP, "#">>,
      KwVersion \o <<"s", "=", QUOTE, "1", QUOTE>>,
      KwVersion \o <<SP, "=", SP, "'", "1", "'">>,
      KwVersion \o <<SP, "=", SP, QUOTE, "1">>,
      <<"a", FF>> \o KwVersion \o <<SP, "=", QUOTE, "2", QUOTE>> }

CargoVersions == { <<"3">>, <<"1", QUOTE, "2">>, <<"1", FF, "2">> }

InitCargo ==
    /\ pc = "Cargo.toml"
    /\ version \in CargoVersions
    /\ body = <<>>
    /\ \E t \in TextsOf(CargoLines, MaxCargoLines) : files = [NoFiles EXCEPT !.cargo = t]
    /\ FreshRun
    /\ IdleServer

SpecCargo == InitCargo /\ [][UpdateCargoVersion]_vars

MaxWorkflowLines == 2

WorkflowLines ==
    { <<"a", ":">>,
      <<SP, SP>> \o ReleaseKey \o <<SP, "o">>,
      <<TAB>> \o ReleaseKey \o <<SP, "o">>,
      ReleaseKey,
      <<"#", SP>> \o ReleaseKey \o <<SP, "o">>,
      <<SP>> \o SubSeq(ReleaseKey, 1, Len(ReleaseKey) - 1) }

FewBodies == { <<"o", "k">>, <<"a", QUOTE, LF, "b">>, <<BSLASH>> }

InitBody ==
    /\ pc = "release.yml"
    /\ version = <<>>
    /\ body \in FewBodies
    /\ \E t \in TextsOf(WorkflowLines, MaxWorkflowLines) :
          files = [NoFiles EXCEPT !.workflow = t]
    /\ FreshRun
    /\ IdleServer

SpecBody == InitBody /\ [][UpdateReleaseBody]_vars

MaxBodyLen == 3

BodyChars == { "n", "u", QUOTE, BSLASH, LF, FF, NEL }

InitEscape ==
    /\ pc = "release.yml"
    /\ version = <<>>
    /\ body \in SeqsUpTo(BodyChars, MaxBodyLen)
    /\ \E t \in WorkflowTexts : files = [NoFiles EXCEPT !.workflow = t]
    /\ FreshRun
    /\ IdleServer

SpecEscape == InitEscape /\ [][UpdateReleaseBody]_vars

---------------------------------------------------------------------------
(* updater-test/server.py: NoCacheRequestHandler.  The class overrides       *)
(* end_headers only; request parsing and the responses are those of the     *)
(* base class SimpleHTTPRequestHandler it inherits (http.server).  A         *)
(* handler is the record of its attributes, its header buffer and what it   *)
(* has written to the connection.                                           *)

NoCacheValue == "no-cache, no-store, must-revalidate"

\* BaseHTTPRequestHandler.protocol_version, which server.py leaves at its default
ProtocolVersion == "HTTP/1.0"

\* a handler as the server constructs it for a connection
NewHandler ==
    [request_version |-> "unset", command |-> "unset", close_connection |-> TRUE,
     buffer |-> <<>>, wire |-> <<>>]

StatusLine(code) == [k |-> "status", name |-> code, value |-> ""]
Header(name, value) == [k |-> "header", name |-> name, value |-> value]
BlankLine == [k |-> "blank", name |-> "", value |-> ""]
Body == [k |-> "body", name |-> "", value |-> ""]

\* the version number of a request's version word: <<0, 0>> stands for a word
\* the parser rejects with ValueError
VersionNumber(word) ==
    CASE word = "HTTP/0.9" -> <<0, 9>>
      [] word = "HTTP/1.0" -> <<1, 0>>
      [] word = "HTTP/1.1" -> <<1, 1>>
      [] word = "HTTP/2.0" -> <<2, 0>>
      [] OTHER -> <<0, 0>>

AtLeast(n, m) == n[1] > m[1] \/ (n[1] = m[1] /\ n[2] >= m[2])

\* send_response_only (inherited)
send_response_only(h, code) ==
    IF h.request_version # "HTTP/0.9"
    THEN [h EXCEPT !.buffer = Append(@, StatusLine(code))]
    ELSE h

\* send_header (inherited)
send_header(h, keyword, value) ==
    LET h1 == IF h.request_version # "HTTP/0.9"
              THEN [h EXCEPT !.buffer = Append(@, Header(keyword, value))]
              ELSE h
    IN  IF keyword = "Connection" /\ value = "close"
        THEN [h1 EXCEPT !.close_connection = TRUE]
        ELSE h1

\* BaseHTTPRequestHandler.end_headers, reached through super().end_headers()
base_end_headers(h) ==
    IF h.request_version # "HTTP/0.9"
    THEN [h EXCEPT !.wire = @ \o h.buffer \o <<BlankLine>>, !.buffer = <<>>]
    ELSE h

\* a plausible slip: the Cache-Control header is left out of the override
end_headers_without_cache_control(h) ==
    base_end_headers(send_header(send_header(h, "Pragma", "no-cache"), "Expires", "0"))

\* NoCacheRequestHandler.end_headers
end_headers(h) ==
    base_end_headers(
        send_header(
            send_header(
                send_header(h, "Cache-Control", NoCacheValue),
                "Pragma", "no-cache"),
            "Expires", "0"))

\* send_response (inherited)
send_response(h, code) ==
    send_header(send_header(send_response_only(h, code), "Server", "version"),
                "Date", "now")

\* send_error (inherited), for the error codes of this handler, all of which
\* have a body
send_error(h, code) ==
    LET h1 == send_header(send_response(h, code), "Connection", "close")
        h2 == send_header(send_header(h1, "Content-Type", "text/html"),
                          "Content-Length", "n")
        h3 == end_headers(h2)
    IN  IF h3.command # "HEAD" THEN [h3 EXCEPT !.wire = Append(@, Body)] ELSE h3

\* handle_expect_100 (inherited)
handle_expect_100(h) == end_headers(send_response_only(h, "100"))

\* parse_request (inherited): ok = FALSE when the request is not to be served
parse_request(h0, r) ==
    LET h == [h0 EXCEPT !.command = "None", !.request_version = "HTTP/0.9",
                        !.close_connection = TRUE]
        n == VersionNumber(r.version)
        h2 == IF r.words >= 3
              THEN [h EXCEPT !.request_version = r.version,
                             !.close_connection =
                                 ~(AtLeast(n, <<1, 1>>) /\
                                   AtLeast(VersionNumber(ProtocolVersion), <<1, 1>>))]
              ELSE h
        h3 == [h2 EXCEPT !.command = r.command,
                         !.close_connection = IF r.words = 2 THEN TRUE ELSE @]
    IN  IF r.words = 0 THEN [ok |-> FALSE, h |-> h]
        ELSE IF r.words >= 3 /\ n = <<0, 0>>
        THEN [ok |-> FALSE, h |-> send_error(h, "400")]
        ELSE IF r.words >= 3 /\ AtLeast(n, <<2, 0>>)
        THEN [ok |-> FALSE, h |-> send_error(h, "505")]
        ELSE IF ~(2 <= r.words /\ r.words <= 3)
        THEN [ok |-> FALSE, h |-> send_error(h2, "400")]
        ELSE IF r.words = 2 /\ r.command # "GET"
        THEN [ok |-> FALSE,
              h |-> send_error([h2 EXCEPT !.close_connection = TRUE], "400")]
        ELSE IF r.headers = "too large"
        THEN [ok |-> FALSE, h |-> send_error(h3, "431")]
        ELSE IF /\ r.expect
                /\ AtLeast(VersionNumber(ProtocolVersion), <<1, 1>>)
                /\ AtLeast(VersionNumber(h3.request_version), <<1, 1>>)
        THEN [ok |-> TRUE, h |-> handle_expect_100(h3)]
        ELSE [ok |-> TRUE, h |-> h3]

\* the response to a file that exists: 304 on a fresh If-Modified-Since
SendFile(h, r) ==
    IF r.fresh
    THEN [f |-> FALSE, h |-> end_headers(send_response(h, "304"))]
    ELSE [f |-> TRUE,
          h |-> end_headers(
                    send_header(
                        send_header(
                            send_header(send_response(h, "200"), "Content-type", "type"),
                            "Content-Length", "n"),
                        "Last-Modified", "mtime"))]

\* send_head and list_directory (inherited): f says whether a file object is
\* returned, whose content do_GET then copies to the connection
send_head(h, r) ==
    CASE r.target = "directory, no slash" ->
            [f |-> FALSE,
             h |-> end_headers(
                       send_header(
                           send_header(send_response(h, "301"), "Location", "url/"),
                           "Content-Length", "0"))]
      [] r.target = "directory with index" -> SendFile(h, r)
      [] r.target = "directory" ->
            [f |-> TRUE,
             h |-> end_headers(
                       send_header(
                           send_header(send_response(h, "200"), "Content-type", "text/html"),
                           "Content-Length", "n"))]
      [] r.target = "unreadable directory" -> [f |-> FALSE, h |-> send_error(h, "404")]
      [] r.target = "missing" -> [f |-> FALSE, h |-> send_error(h, "404")]
      [] r.target = "file" -> SendFile(h, r)

\* handle_one_request (inherited), with do_GET and do_HEAD
handle_one_request(h, r) ==
    IF r.line = "too long"
    THEN send_error([h EXCEPT !.request_version = "", !.command = ""], "414")
    ELSE IF r.line = "eof"
    THEN [h EXCEPT !.close_connection = TRUE]
    ELSE LET p == parse_request(h, r)
         IN  IF ~p.ok THEN p.h
             ELSE IF p.h.command \notin {"GET", "HEAD"}
             THEN send_error(p.h, "501")
             ELSE LET s == send_head(p.h, r)
                  IN  IF s.f /\ p.h.command = "GET"
                      THEN [s.h EXCEPT !.wire = Append(@, Body)]
                      ELSE s.h

\* what a client may send on a connection
Requests ==
    [line : {"ok", "too long", "eof"},
     words : 0..4,
     command : {"GET", "HEAD", "POST"},
     version : {"HTTP/0.9", "HTTP/1.0", "HTTP/1.1", "HTTP/2.0", "FOO/1.0"},
     headers : {"ok", "too large"},
     expect : BOOLEAN,
     fresh : BOOLEAN,
     target : {"file", "missing", "directory, no slash", "directory with index",
               "directory", "unreadable directory"}]

IdleRun ==
    /\ pc = "off"
    /\ version = <<>>
    /\ body = <<>>
    /\ files = NoFiles
    /\ FreshRun

InitServer ==
    /\ spc = "listening"
    /\ req = NoRequest
    /\ resp = NewHandler
    /\ IdleRun

\* serve_forever accepts a connection and constructs its handler
Accept ==
    /\ spc = "listening"
    /\ req' \in Requests
    /\ resp' = NewHandler
    /\ spc' = "handling"
    /\ UNCHANGED bumpVars

\* the handler handles the connection's request
HandleRequest ==
    /\ spc = "handling"
    /\ resp' = handle_one_request(resp, req)
    /\ spc' = "responded"
    /\ UNCHANGED <<req, bumpVars>>

\* the connection is closed and the server listens again
Finish ==
    /\ spc = "responded"
    /\ spc' = "listening"
    /\ req' = NoRequest
    /\ resp' = NewHandler
    /\ UNCHANGED bumpVars

NextServer == Accept \/ HandleRequest \/ Finish

SpecServer == InitServer /\ [][NextServer]_vars

---------------------------------------------------------------------------
(* Vocabulary of the properties *)

Terminated == pc \in {"done", "error"}

Range(f) == { f[i] : i \in DOMAIN f }

\* the text's lines in the everyday sense: what "\n" separates
NewlineLines(text) == SplitOn(text, {LF})

\* the text a version line carries between its quotes
QuotedValue(line) ==
    LET j == FindIn(line, 1, {QUOTE})
        k == FindIn(line, j + 1, {QUOTE})
    IN  SubSeq(line, j + 1, k - 1)

\* the document is an object whose "version" is the string v
TopVersionIs(text, v) ==
    /\ text.valid
    /\ IsDict(text.data)
    /\ "version" \in DOMAIN text.data.d
    /\ text.data.d["version"] = JStr(v)

\* the document has a dict at packages[""]
HasRootPackage(text) ==
    /\ text.valid
    /\ IsDict(text.data)
    /\ "packages" \in DOMAIN text.data.d
    /\ IsDict(text.data.d["packages"])
    /\ "" \in DOMAIN text.data.d["packages"].d
    /\ IsDict(text.data.d["packages"].d[""])

RootVersionIs(text, v) ==
    /\ "version" \in DOMAIN text.data.d["packages"].d[""].d
    /\ text.data.d["packages"].d[""].d["version"] = JStr(v)

\* Cargo.toml states version v: it has the line version = "v", and no version
\* line of it states anything else
CargoVersionIs(text, v) ==
    /\ \E l \in Range(NewlineLines(text)) : l = VersionLine(v)
    /\ \A l \in Range(NewlineLines(text)) : VersionPatternMatch(l) => QuotedValue(l) = v

\* the manifest's "version" is absent, not a string, or empty / white space only
BadManifestVersion(text) ==
    ~ /\ text.valid
      /\ IsDict(text.data)
      /\ "version" \in DOMAIN text.data.d
      /\ IsStr(text.data.d["version"])
      /\ \E i \in 1..Len(text.data.d["version"].s) :
            text.data.d["version"].s[i] \notin WhiteSpace

\* the JSON document has no "version" field
LacksVersionField(text) ==
    text.valid /\ IsDict(text.data) /\ "version" \notin DOMAIN text.data.d

NoVersionLine(text) ==
    \A l \in Range(SplitLines(text)) : ~VersionPatternMatch(l)

NoReleaseBodyKey(text) ==
    \A l \in Range(FileLines(text)) : ~IsReleaseBodyLine(l)

\* the version can be written between double quotes on one line
PlainVersion(v) == \A i \in 1..Len(v) : v[i] \notin LineBoundary \cup {QUOTE}

NoLineBoundary(v) == \A i \in 1..Len(v) : v[i] \notin LineBoundary

\* the white space a line starts with
LeadingWhiteSpace(line) == SubSeq(line, 1, Len(line) - Len(LStrip(line)))

\* the file of step j holds what its update wrote for version v / body b
Updated(f, j, v, b) ==
    CASE j = 1 -> TopVersionIs(f.pkg, v) /\ f.pkg.fmt = "indent2"
      [] j = 2 -> TopVersionIs(f.lock, v) /\ f.lock.fmt = "indent2"
      [] j = 3 -> TopVersionIs(f.tauri, v) /\ f.tauri.fmt = "indent2"
      [] j = 4 -> \E l \in Range(NewlineLines(f.cargo)) : l = VersionLine(v)
      [] j = 5 -> \E l \in Range(FileLines(f.workflow)) :
                     LStrip(l) = ReleaseKey \o <<SP>> \o escape_for_yaml(b) \o <<LF>>

StepNumber(step) == CHOOSE j \in 1..Len(STEPS) : STEPS[j] = step

(* JSON decoding of a string literal, as json.loads does it (strict mode) *)

JsonError == [ok |-> FALSE, s |-> <<>>]

\* the character a two-character escape stands for
Unescape(e) ==
    CASE e = QUOTE -> QUOTE
      [] e = BSLASH -> BSLASH
      [] e = "/" -> "/"
      [] e = "n" -> LF
      [] e = "t" -> TAB
      [] e = "f" -> FF
      [] e = "b" -> "U+0008"
      [] e = "r" -> "U+000D"

HexDigits == {"0", "1", "2", "3", "4", "5", "6", "7", "8", "9",
              "a", "b", "c", "d", "e", "f", "A", "B", "C", "D", "E", "F"}

\* the character \uXXXX stands for
CodePoint(h) ==
    IF h = <<"0", "0", "8", "5">> THEN NEL
    ELSE IF h = <<"0", "0", "0", "a">> THEN LF
    ELSE "U+other"

RECURSIVE ScanString(_, _, _)
ScanString(s, i, acc) ==
    IF i > Len(s) THEN JsonError
    ELSE IF s[i] = QUOTE
    THEN IF SkipIn(s, i + 1, {SP, TAB, LF}) = Len(s) + 1
         THEN [ok |-> TRUE, s |-> acc] ELSE JsonError
    ELSE IF s[i] \in {LF, TAB, FF} THEN JsonError
    ELSE IF s[i] = BSLASH
    THEN IF i + 1 > Len(s) THEN JsonError
         ELSE IF s[i + 1] = "u"
         THEN IF i + 5 <= Len(s) /\ \A k \in (i + 2)..(i + 5) : s[k] \in HexDigits
              THEN ScanString(s, i + 6, Append(acc, CodePoint(SubSeq(s, i + 2, i + 5))))
              ELSE JsonError
         ELSE IF s[i + 1] \in {QUOTE, BSLASH, "/", "n", "t", "f", "b", "r"}
         THEN ScanString(s, i + 2, Append(acc, Unescape(s[i + 1])))
         ELSE JsonError
    ELSE ScanString(s, i + 1, Append(acc, s[i]))

JsonDecode(s) ==
    LET i == SkipIn(s, 1, {SP, TAB, LF})
    IN  IF i > Len(s) \/ s[i] # QUOTE THEN JsonError ELSE ScanString(s, i + 1, <<>>)

---------------------------------------------------------------------------
(* The properties *)

C5_WrittenFilesArePrefix ==
    /\ written = SubSeq(STEPS, 1, Len(written))
    /\ \A j \in 1..Len(STEPS) :
          IF j <= Len(written)
          THEN Updated(files, j, version, body)
          ELSE FileOf(files, STEPS[j]) = FileOf(orig, STEPS[j])
    /\ (pc = "error" /\ failedAt \in Range(STEPS)) =>
          Len(written) = StepNumber(failedAt) - 1
    /\ pc = "done" => written = STEPS

\* the run failed at Cargo.toml after rewriting the three JSON documents
C5_Witness ==
    /\ pc = "error"
    /\ failedAt = "Cargo.toml"
    /\ written = SubSeq(STEPS, 1, 3)
    /\ files.pkg # orig.pkg
    /\ files.lock # orig.lock
    /\ files.tauri # orig.tauri
    /\ files.cargo = orig.cargo
    /\ files.workflow = orig.workflow

\* C6: validation fails fast: with a manifest version that is absent, not a
\* string or blank, or a blank answer to either prompt, the run ends with an
\* error and no file has been written.
C6_ValidationBeforeAnyWrite ==
    /\ (BadManifestVersion(orig.pkg) /\ pc # "get_current_version") =>
          (pc = "error" /\ written = <<>> /\ files = orig)
    /\ \A k \in 1..Len(answers) :
          (\A i \in 1..Len(answers[k]) : answers[k][i] \in WhiteSpace) =>
              (pc = "error" /\ written = <<>> /\ files = orig)

\* the release description was answered with white space only
C6_Witness ==
    /\ pc = "error"
    /\ failedAt = "prompt_body"
    /\ Len(answers) = 2
    /\ answers[2] = <<SP, TAB>>
    /\ files = orig

\* C7, as claimed: a run ends with an error whenever an expected field is
\* missing from a file it edits: the "version" of package.json,
\* package-lock.json or tauri.conf.json, the version line of Cargo.toml, the
\* releaseBody key of release.yml.
C7_Original ==
    (/\ Terminated
     /\ \/ LacksVersionField(orig.pkg)
        \/ LacksVersionField(orig.lock)
        \/ LacksVersionField(orig.tauri)
        \/ NoVersionLine(orig.cargo)
        \/ NoReleaseBodyKey(orig.workflow)) => pc = "error"

\* C7, amended: a run ends with an error whenever package.json has no
\* "version", Cargo.toml has no version line or release.yml has no releaseBody
\* key; a "version" missing from package-lock.json or tauri.conf.json is added.
C7_MissingFieldsThatFail ==
    /\ (/\ Terminated
        /\ \/ LacksVersionField(orig.pkg)
           \/ NoVersionLine(orig.cargo)
           \/ NoReleaseBodyKey(orig.workflow)) => pc = "error"
    /\ (pc = "done" /\ run = 1) =>
          /\ LacksVersionField(orig.lock) => TopVersionIs(files.lock, version)
          /\ LacksVersionField(orig.tauri) => TopVersionIs(files.tauri, version)

\* the run reached the last step and failed there for want of the key, after
\* adding the version missing from package-lock.json and tauri.conf.json
C7_Witness ==
    /\ pc = "error"
    /\ failedAt = "release.yml"
    /\ NoReleaseBodyKey(orig.workflow)
    /\ LacksVersionField(orig.lock)
    /\ LacksVersionField(orig.tauri)
    /\ TopVersionIs(files.lock, version)
    /\ TopVersionIs(files.tauri, version)

\* C10, as claimed: for any version and body, a second run with the answers of
\* a successful first run completes and leaves the five files as they were.
C10_Original ==
    (run >= 2 /\ Terminated) => (pc = "done" /\ files = orig)

\* C10, amended: the same, for a version that holds no double quote and no
\* line boundary character: the second run never fails and never changes a file.
C10_RerunIsIdentity ==
    (run >= 2 /\ PlainVersion(Strip(inputs[1]))) => (pc # "error" /\ files = orig)

\* a second run completed, having written all five files again
C10_Witness ==
    /\ run = 2
    /\ pc = "done"
    /\ written = STEPS
    /\ PlainVersion(version)
    /\ QUOTE \in Range(body)
    /\ files = orig

\* C2: update_cargo_version on a file with no line matching the pattern ends
\* with an error and leaves the file's content as it was.
C2_NoVersionLineFailsUnchanged ==
    (pc # "Cargo.toml" /\ NoVersionLine(orig.cargo)) =>
        /\ pc = "error"
        /\ failedAt = "Cargo.toml"
        /\ written = <<>>
        /\ files.cargo = orig.cargo

\* the step failed on a file of three lines that look like version lines but
\* are none, the last one unterminated
C2_Witness ==
    /\ pc = "error"
    /\ Len(SplitLines(orig.cargo)) = 3
    /\ \A l \in Range(SplitLines(orig.cargo)) : StartsWith(LStrip(l), KwVersion)
    /\ orig.cargo[Len(orig.cargo)] # LF
    /\ files.cargo = orig.cargo

\* the frame of update_cargo_version: line for line, a matching line becomes
\* the version line and any other line stays
CargoFrame ==
    LET old == SplitLines(orig.cargo)
        new == SplitLines(files.cargo)
    IN  /\ Len(new) = Len(old)
        /\ \A i \in 1..Len(old) :
              IF VersionPatternMatch(old[i])
              THEN new[i] = VersionLine(version)
              ELSE new[i] = old[i]

\* C9, as claimed: on success update_cargo_version keeps the number and order
\* of the lines, rewrites every matching line to version = "<v>" and leaves
\* every other line as it was.
C9_Original == pc = "release.yml" => CargoFrame

\* C9, amended: the same, for a version that holds no line boundary character.
C9_FrameForOneLineVersion ==
    (pc = "release.yml" /\ NoLineBoundary(version)) => CargoFrame

\* success on a file with two matching lines and one that does not match
C9_Witness ==
    /\ pc = "release.yml"
    /\ NoLineBoundary(version)
    /\ LET old == SplitLines(orig.cargo)
       IN  /\ Len(old) = 3
           /\ VersionPatternMatch(old[1])
           /\ ~VersionPatternMatch(old[2])
           /\ StartsWith(LStrip(old[2]), KwVersion)
           /\ VersionPatternMatch(old[3])
           /\ old[3] # VersionLine(<<"1">>)

\* the value written after "releaseBody: " on a line of the file
WrittenValue(line) ==
    LET l == LStrip(line)
    IN  SubSeq(l, Len(ReleaseKey) + 2, Len(l) - 1)

\* C3: update_release_body on a file with a releaseBody: line writes, for any
\* body, a replacement that is one line, and the value after "releaseBody: "
\* JSON-decodes to the body.
C3_EscapedBodyRoundTrips ==
    (pc # "release.yml" /\ ~NoReleaseBodyKey(orig.workflow)) =>
        LET old == FileLines(orig.workflow)
            new == FileLines(files.workflow)
        IN  /\ pc = "done"
            /\ Len(new) = Len(old)
            /\ \A i \in 1..Len(old) :
                  IsReleaseBodyLine(old[i]) =>
                      /\ StartsWith(LStrip(new[i]), ReleaseKey \o <<SP>>)
                      /\ new[i][Len(new[i])] = LF
                      /\ \A k \in 1..(Len(new[i]) - 1) : new[i][k] \notin LineBoundary
                      /\ JsonDecode(WrittenValue(new[i])) = [ok |-> TRUE, s |-> body]

\* a body of a quote, a backslash and a newline was written
C3_Witness ==
    /\ pc = "done"
    /\ {QUOTE, BSLASH, LF} \subseteq Range(body)
    /\ files.workflow # orig.workflow

\* C8: update_release_body replaces the value of each releaseBody: line, the
\* replaced line starting with exactly the leading white space of the
\* original, and leaves every other line as it was; without such a line it
\* ends with an error and the file is unchanged.
C8_IndentationPreserved ==
    pc # "release.yml" =>
        LET old == FileLines(orig.workflow)
            new == FileLines(files.workflow)
        IN  IF NoReleaseBodyKey(orig.workflow)
            THEN pc = "error" /\ files.workflow = orig.workflow
            ELSE /\ pc = "done"
                 /\ Len(new) = Len(old)
                 /\ \A i \in 1..Len(old) :
                       IF IsReleaseBodyLine(old[i])
                       THEN /\ LeadingWhiteSpace(new[i]) = LeadingWhiteSpace(old[i])
                            /\ LStrip(new[i]) =
                                  ReleaseKey \o <<SP>> \o escape_for_yaml(body) \o <<LF>>
                       ELSE new[i] = old[i]

\* the header blocks of what was written: each runs from a status line to
\* the blank line that closes it
HeaderBlocks(wire) ==
    { <<i, j>> \in (1..Len(wire)) \X (1..Len(wire)) :
        /\ i < j
        /\ wire[i].k = "status"
        /\ wire[j].k = "blank"
        /\ \A m \in (i + 1)..(j - 1) : wire[m].k = "header" }

HasNoCacheHeader(wire, i, j) ==
    \E m \in i..j : wire[m] = Header("Cache-Control", NoCacheValue)

\* C4, as claimed: every response the server sends, whatever the path and the
\* outcome, carries Cache-Control: no-cache, no-store, must-revalidate.
C4_Original ==
    (spc = "responded" /\ resp.wire # <<>>) =>
        \E m \in 1..Len(resp.wire) : resp.wire[m] = Header("Cache-Control", NoCacheValue)

\* C4, amended: every header block the server sends carries the header, and
\* every response to a request line that carries a well-formed version word
\* HTTP/1.x (and the 414 response) has such a block; the response to a request
\* line of two words, of one or of four and more without a well-formed version
\* word, or of version HTTP/0.9, is sent without status line or headers.
C4_EveryHeaderBlockIsNoCache ==
    spc = "responded" =>
        /\ \A b \in HeaderBlocks(resp.wire) : HasNoCacheHeader(resp.wire, b[1], b[2])
        /\ (resp.wire # <<>> /\ resp.request_version # "HTTP/0.9") =>
              /\ resp.wire[1].k = "status"
              /\ HeaderBlocks(resp.wire) # {}
        /\ resp.request_version = "HTTP/0.9" =>
              \A m \in 1..Len(resp.wire) : resp.wire[m].k = "body"

\* a 404 answered to a GET of a missing file under HTTP/1.1
C4_Witness ==
    /\ spc = "responded"
    /\ req.command = "GET"
    /\ req.target = "missing"
    /\ resp.request_version = "HTTP/1.1"
    /\ resp.wire[1] = StatusLine("404")
    /\ HeaderBlocks(resp.wire) # {}
    /\ resp.wire[Len(resp.wire)] = Body

====
